---- MODULE Spec2Model ----
(***************************************************************************)
(* Model of the Hyperion connection manager of drm-vc4-grabber            *)
(* (src/src/connection_manager.rs): the session state machine, its        *)
(* failure accounting, the exponential backoff and the fallback send.     *)
(*                                                                         *)
(* Every method of HyperionConnectionManager is an operator from the      *)
(* manager (a record of the struct's fields) and the outcomes of the IO   *)
(* calls it makes to a record [m, ret, io]: the manager afterwards, the   *)
(* value returned and the IO calls made, in order.  One action per public *)
(* method applies the operator to the current fields.  Time is the        *)
(* process clock in milliseconds; an operation reads the clock once.      *)
(* Option<T> is the set of at most one T.  The logger only writes text    *)
(* and connection_start_time is only ever reported (as an uptime), so     *)
(* both are left out of the manager.  Further sections model main()'s     *)
(* loop, the DiagnosticLogger's buffer, deduplication and mutexes          *)
(* (src/src/diagnostics.rs) and the SystemMonitor's thread                 *)
(* (src/src/system_monitor.rs).                                            *)
(***************************************************************************)
EXTENDS Integers, Sequences, FiniteSets, TLC

VARIABLES
    config,                  \* ConnectionConfig (immutable)
    socket,                  \* Option<TcpStream>
    state,                   \* ConnectionState
    last_connection_attempt, \* Option<Instant>
    consecutive_failures,    \* u32
    last_health_check,       \* Instant
    total_reconnections,     \* u32
    now,                     \* the process clock (ms)
    last                     \* the call that has just returned: [op, arg, from,
                             \* after, ret, io]; arg is the io::Error the call
                             \* was given or met, from the state it was made in,
                             \* after what the call before it did (Event)

VARIABLES
    pc,                      \* where main() is
    diagnostic,              \* [mode: --diagnostic given, logger: a logger exists]
    last_recovery_check,     \* LAST_RECOVERY_CHECK: Option<Instant>
    error_buffer,            \* DiagnosticLogger::error_buffer: VecDeque<LogEntry>
    log_pc,                  \* where each thread is inside log_buffered
    log_seq                  \* log_buffered calls begun so far

VARIABLES
    last_hyperion_error,     \* DiagnosticLogger::last_hyperion_error:
                             \* Option<SystemTime>
    should_log,              \* per thread, the should_log of a failure call
                             \* that has left the mutex: the time it decided at
    writer,                  \* the HYPERION_ERROR lines written to the log file
    monitoring,              \* SystemMonitor::monitoring: Mutex<bool>
    monitors,                \* where each spawned monitoring thread is
    lock_owner,              \* the thread holding each mutex of the logger and
                             \* of the ResourceTracker
    call_steps,              \* per thread, the lock and unlock steps left in
                             \* the logging call it is inside
    server                   \* whether the Hyperion server accepts and answers

mainv == <<pc, diagnostic, last_recovery_check>>

logv == <<error_buffer, log_pc, log_seq>>

hypv == <<last_hyperion_error, should_log, writer>>

monv == <<monitoring, monitors>>

lockv == <<lock_owner, call_steps>>

aux == <<mainv, logv, hypv, monv, lockv, server>>

vars == <<config, socket, state, last_connection_attempt, consecutive_failures,
          last_health_check, total_reconnections, now, last, aux>>

fields == <<config, socket, state, last_connection_attempt, consecutive_failures,
            last_health_check, total_reconnections>>

----------------------------------------------------------------------------
(* Bounds of the model *)

MaxTime == 4              \* the clock stops here
MaxRetries == 2           \* config.max_retries is drawn from 0..MaxRetries
InitialBackoffMs == 1     \* config.initial_backoff_ms
MaxBackoffMs == 2         \* config.max_backoff_ms
HealthCheckIntervalMs == 3 \* config.health_check_interval_ms
MaxFailures == 3          \* cap of consecutive_failures
MaxReconnections == 1     \* cap of total_reconnections

----------------------------------------------------------------------------
(* Option<T> *)

None == {}
Some(x) == {x}
Unwrap(o) == CHOOSE x \in o : TRUE

----------------------------------------------------------------------------
(* u64 arithmetic of the release build: wrapping, modulo 2^64.  A u64 is  *)
(* its eight bytes, least significant first.                               *)

U64Bytes == 8
ByteBits == 8
ByteBase == 256

RECURSIVE ToBytes(_, _)
ToBytes(n, k) ==
    IF k = 0 THEN <<>> ELSE <<n % ByteBase>> \o ToBytes(n \div ByteBase, k - 1)

ToU64(n) == ToBytes(n, U64Bytes)

\* The k-th column of the schoolbook product of a and b (1-based bytes).
RECURSIVE ColumnSum(_, _, _, _)
ColumnSum(a, b, k, i) ==
    IF i > k THEN 0 ELSE a[i] * b[k + 1 - i] + ColumnSum(a, b, k, i + 1)

RECURSIVE MulBytes(_, _, _, _)
MulBytes(a, b, k, carry) ==
    IF k > U64Bytes THEN <<>>
    ELSE LET s == ColumnSum(a, b, k, 1) + carry
         IN  <<s % ByteBase>> \o MulBytes(a, b, k + 1, s \div ByteBase)

wrapping_mul(a, b) == MulBytes(a, b, 1, 0)

\* 2_u64.pow(e), wrapping: bit e of the eight bytes, and 0 from e = 64 on.
wrapping_pow2(e) ==
    [k \in 1..U64Bytes |->
        IF e < U64Bytes * ByteBits /\ e \div ByteBits = k - 1
        THEN 2^(e % ByteBits) ELSE 0]

RECURSIVE LessEqFrom(_, _, _)
LessEqFrom(a, b, k) ==
    IF k = 0 THEN TRUE
    ELSE IF a[k] # b[k] THEN a[k] < b[k]
    ELSE LessEqFrom(a, b, k - 1)

U64Min(a, b) == IF LessEqFrom(a, b, U64Bytes) THEN a ELSE b

RECURSIVE FromBytes(_, _)
FromBytes(a, k) ==
    IF k > U64Bytes THEN 0 ELSE a[k] + ByteBase * FromBytes(a, k + 1)

FromU64(a) == FromBytes(a, 1)

saturating_sub(a, b) == IF a >= b THEN a - b ELSE 0

----------------------------------------------------------------------------
(* The manager and the values it returns *)

ConnectionStates == {"Connected", "Disconnected", "Reconnecting", "Failed"}

ReconnectableKinds ==
    {"BrokenPipe", "ConnectionAborted", "ConnectionReset", "UnexpectedEof"}
FatalKinds == {"TimedOut", "WouldBlock"}
ErrorKinds == ReconnectableKinds \cup FatalKinds

\* How a connect attempt ends: the first IO call that fails, or none.
ConnectOutcomes ==
    {"tcp_fail", "read_timeout_fail", "write_timeout_fail",
     "register_fail", "reply_fail", "color_fail", "ok"}

Ok(v) == [tag |-> "Ok", val |-> v]
Err(v) == [tag |-> "Err", val |-> v]
Ret(v) == [tag |-> "Ret", val |-> v]
Bool(b) == IF b THEN "true" ELSE "false"

Manager ==
    [config |-> config, socket |-> socket, state |-> state,
     last_connection_attempt |-> last_connection_attempt,
     consecutive_failures |-> consecutive_failures,
     last_health_check |-> last_health_check,
     total_reconnections |-> total_reconnections]

\* What dropping the Option<TcpStream> held in a slot does.
DropSocket(s) == IF s = None THEN <<>> ELSE <<"close">>

\* Mutant: the exponent is consecutive_failures, not one less.
calculate_backoff_duration_NoSub(m) ==
    FromU64(U64Min(
        wrapping_mul(ToU64(m.config.initial_backoff_ms),
                     wrapping_pow2(m.consecutive_failures)),
        ToU64(m.config.max_backoff_ms)))

\* fn calculate_backoff_duration(&self) -> Duration
calculate_backoff_duration(m) ==
    FromU64(U64Min(
        wrapping_mul(ToU64(m.config.initial_backoff_ms),
                     wrapping_pow2(saturating_sub(m.consecutive_failures, 1))),
        ToU64(m.config.max_backoff_ms)))

\* Mutant: a failure with retries left goes back to Disconnected.
handle_connection_failure_ToDisconnected(m) ==
    LET n == m.consecutive_failures + 1
    IN  [m |-> [m EXCEPT !.consecutive_failures = n,
                         !.socket = None,
                         !.state = IF n >= m.config.max_retries
                                   THEN "Failed" ELSE "Disconnected"],
         ret |-> Ret("()"),
         io |-> DropSocket(m.socket)]

\* Mutant: the retry limit is compared with > instead of >=.
handle_connection_failure_OffByOne(m) ==
    LET n == m.consecutive_failures + 1
    IN  [m |-> [m EXCEPT !.consecutive_failures = n,
                         !.socket = None,
                         !.state = IF n > m.config.max_retries
                                   THEN "Failed" ELSE "Reconnecting"],
         ret |-> Ret("()"),
         io |-> DropSocket(m.socket)]

\* fn handle_connection_failure(&mut self, error_msg: String)
handle_connection_failure(m) ==
    LET n == m.consecutive_failures + 1
    IN  [m |-> [m EXCEPT !.consecutive_failures = n,
                         !.socket = None,
                         !.state = IF n >= m.config.max_retries
                                   THEN "Failed" ELSE "Reconnecting"],
         ret |-> Ret("()"),
         io |-> DropSocket(m.socket)]

\* Mutant: the reply to Register is not read.
perform_handshake_SkipsReply(outcome) ==
    CASE outcome = "register_fail" ->
           [ret |-> Err("HandshakeError"), io |-> <<"register">>]
      [] outcome = "color_fail" ->
           [ret |-> Err("HandshakeError"), io |-> <<"register", "send_color_warm">>]
      [] OTHER ->
           [ret |-> Ok("()"), io |-> <<"register", "send_color_warm">>]

\* fn perform_handshake(&self, socket: &mut TcpStream) -> StdResult<()>
perform_handshake(outcome) ==
    CASE outcome = "register_fail" ->
           [ret |-> Err("HandshakeError"), io |-> <<"register">>]
      [] outcome = "reply_fail" ->
           [ret |-> Err("HandshakeError"), io |-> <<"register", "read_reply">>]
      [] outcome = "color_fail" ->
           [ret |-> Err("HandshakeError"),
            io |-> <<"register", "read_reply", "send_color_warm">>]
      [] OTHER ->
           [ret |-> Ok("()"),
            io |-> <<"register", "read_reply", "send_color_warm">>]

\* Mutant: the socket of a failed handshake is never closed.
attempt_connection_LeaksOnHandshakeFailure(m, t, outcome) ==
    LET m1 == [m EXCEPT !.state = "Reconnecting",
                        !.last_connection_attempt = Some(t)]
    IN  IF outcome = "tcp_fail"
        THEN LET f == handle_connection_failure(m1)
             IN  [m |-> f.m, ret |-> Err("ConnectError"),
                  io |-> <<"connect">> \o f.io]
        ELSE IF outcome = "read_timeout_fail"
        THEN [m |-> m1, ret |-> Err("TimeoutConfigError"),
              io |-> <<"connect", "set_read_timeout", "close">>]
        ELSE IF outcome = "write_timeout_fail"
        THEN [m |-> m1, ret |-> Err("TimeoutConfigError"),
              io |-> <<"connect", "set_read_timeout", "set_write_timeout",
                       "close">>]
        ELSE LET h == perform_handshake(outcome)
                 pre == <<"connect", "set_read_timeout", "set_write_timeout">>
             IN  IF h.ret.tag = "Ok"
                 THEN [m |-> [m1 EXCEPT !.socket = Some([log |-> h.io]),
                                        !.state = "Connected",
                                        !.consecutive_failures = 0],
                       ret |-> Ok("()"),
                       io |-> pre \o h.io \o DropSocket(m1.socket)]
                 ELSE LET f == handle_connection_failure(m1)
                      IN  [m |-> f.m, ret |-> h.ret,
                           io |-> pre \o h.io \o f.io]

\* Mutant: a successful attempt keeps the failure count.
attempt_connection_KeepsFailures(m, t, outcome) ==
    LET m1 == [m EXCEPT !.state = "Reconnecting",
                        !.last_connection_attempt = Some(t)]
    IN  IF outcome = "tcp_fail"
        THEN LET f == handle_connection_failure(m1)
             IN  [m |-> f.m, ret |-> Err("ConnectError"),
                  io |-> <<"connect">> \o f.io]
        ELSE IF outcome = "read_timeout_fail"
        THEN [m |-> m1, ret |-> Err("TimeoutConfigError"),
              io |-> <<"connect", "set_read_timeout", "close">>]
        ELSE IF outcome = "write_timeout_fail"
        THEN [m |-> m1, ret |-> Err("TimeoutConfigError"),
              io |-> <<"connect", "set_read_timeout", "set_write_timeout",
                       "close">>]
        ELSE LET h == perform_handshake(outcome)
                 pre == <<"connect", "set_read_timeout", "set_write_timeout">>
             IN  IF h.ret.tag = "Ok"
                 THEN [m |-> [m1 EXCEPT !.socket = Some([log |-> h.io]),
                                        !.state = "Connected"],
                       ret |-> Ok("()"),
                       io |-> pre \o h.io \o DropSocket(m1.socket)]
                 ELSE LET f == handle_connection_failure(m1)
                      IN  [m |-> f.m, ret |-> h.ret,
                           io |-> pre \o h.io \o f.io \o <<"close">>]

\* fn attempt_connection(&mut self) -> StdResult<()>
attempt_connection(m, t, outcome) ==
    LET m1 == [m EXCEPT !.state = "Reconnecting",
                        !.last_connection_attempt = Some(t)]
    IN  IF outcome = "tcp_fail"
        THEN LET f == handle_connection_failure(m1)
             IN  [m |-> f.m, ret |-> Err("ConnectError"),
                  io |-> <<"connect">> \o f.io]
        ELSE IF outcome = "read_timeout_fail"
        THEN [m |-> m1, ret |-> Err("TimeoutConfigError"),
              io |-> <<"connect", "set_read_timeout", "close">>]
        ELSE IF outcome = "write_timeout_fail"
        THEN [m |-> m1, ret |-> Err("TimeoutConfigError"),
              io |-> <<"connect", "set_read_timeout", "set_write_timeout",
                       "close">>]
        ELSE LET h == perform_handshake(outcome)
                 pre == <<"connect", "set_read_timeout", "set_write_timeout">>
             IN  IF h.ret.tag = "Ok"
                 THEN [m |-> [m1 EXCEPT !.socket = Some([log |-> h.io]),
                                        !.state = "Connected",
                                        !.consecutive_failures = 0],
                       ret |-> Ok("()"),
                       io |-> pre \o h.io \o DropSocket(m1.socket)]
                 ELSE LET f == handle_connection_failure(m1)
                      IN  [m |-> f.m, ret |-> h.ret,
                           io |-> pre \o h.io \o f.io \o <<"close">>]

\* Mutant: a failed check is counted as a reconnection.
perform_health_check_CountsReconnection(m, alive) ==
    IF m.state = "Connected" /\ m.socket # None
    THEN IF alive
         THEN [m |-> m, ret |-> Ret("()"), io |-> <<"peer_addr">>]
         ELSE [m |-> [m EXCEPT !.socket = None, !.state = "Disconnected",
                               !.total_reconnections = @ + 1],
               ret |-> Ret("()"), io |-> <<"peer_addr", "close">>]
    ELSE [m |-> m, ret |-> Ret("()"), io |-> <<>>]

\* Mutant: a failed check demotes the state but keeps the socket.
perform_health_check_KeepsSocket(m, alive) ==
    IF m.state = "Connected" /\ m.socket # None
    THEN IF alive
         THEN [m |-> m, ret |-> Ret("()"), io |-> <<"peer_addr">>]
         ELSE [m |-> [m EXCEPT !.state = "Disconnected"],
               ret |-> Ret("()"), io |-> <<"peer_addr">>]
    ELSE [m |-> m, ret |-> Ret("()"), io |-> <<>>]

\* Mutant: a manager without a socket is taken for a broken connection.
perform_health_check_DemotesWithoutSocket(m, alive) ==
    IF m.socket = None
    THEN [m |-> [m EXCEPT !.state = "Disconnected"], ret |-> Ret("()"), io |-> <<>>]
    ELSE IF alive
         THEN [m |-> m, ret |-> Ret("()"), io |-> <<"peer_addr">>]
         ELSE [m |-> [m EXCEPT !.socket = None, !.state = "Disconnected"],
               ret |-> Ret("()"), io |-> <<"peer_addr", "close">>]

\* fn perform_health_check(&mut self)
perform_health_check(m, alive) ==
    IF m.state = "Connected" /\ m.socket # None
    THEN IF alive
         THEN [m |-> m, ret |-> Ret("()"), io |-> <<"peer_addr">>]
         ELSE [m |-> [m EXCEPT !.socket = None, !.state = "Disconnected"],
               ret |-> Ret("()"), io |-> <<"peer_addr", "close">>]
    ELSE [m |-> m, ret |-> Ret("()"), io |-> <<>>]

HealthCheckDue(m, t) ==
    t - m.last_health_check >= m.config.health_check_interval_ms

\* The tail of ensure_connected: "If we get here, we should have a connection".
SocketOrError(m, io) ==
    IF m.socket # None
    THEN [m |-> m, ret |-> Ok("socket"), io |-> io]
    ELSE [m |-> m, ret |-> Err("NoSocket"), io |-> io]

\* The `?` after attempt_connection, then the tail.
AttemptThenSocket(m, t, outcome, io) ==
    LET a == attempt_connection(m, t, outcome)
    IN  IF a.ret.tag = "Err"
        THEN [m |-> a.m, ret |-> a.ret, io |-> io \o a.io]
        ELSE SocketOrError(a.m, io \o a.io)

\* Mutant: the backoff must be exceeded, not merely reached.
DispatchOnState_StrictBackoff(m, t, outcome, io) ==
    CASE m.state = "Connected" ->
           IF m.socket # None
           THEN [m |-> m, ret |-> Ok("socket"), io |-> io]
           ELSE SocketOrError([m EXCEPT !.state = "Disconnected"], io)
      [] m.state \in {"Disconnected", "Failed"} ->
           AttemptThenSocket(m, t, outcome, io)
      [] m.state = "Reconnecting" ->
           IF m.last_connection_attempt # None
           THEN IF t - Unwrap(m.last_connection_attempt)
                      > calculate_backoff_duration(m)
                THEN AttemptThenSocket(m, t, outcome, io)
                ELSE [m |-> m, ret |-> Err("BackoffActive"), io |-> io]
           ELSE AttemptThenSocket(m, t, outcome, io)

\* The `match self.state` of ensure_connected.
DispatchOnState(m, t, outcome, io) ==
    CASE m.state = "Connected" ->
           IF m.socket # None
           THEN [m |-> m, ret |-> Ok("socket"), io |-> io]
           ELSE SocketOrError([m EXCEPT !.state = "Disconnected"], io)
      [] m.state \in {"Disconnected", "Failed"} ->
           AttemptThenSocket(m, t, outcome, io)
      [] m.state = "Reconnecting" ->
           IF m.last_connection_attempt # None
           THEN IF t - Unwrap(m.last_connection_attempt)
                      >= calculate_backoff_duration(m)
                THEN AttemptThenSocket(m, t, outcome, io)
                ELSE [m |-> m, ret |-> Err("BackoffActive"), io |-> io]
           ELSE AttemptThenSocket(m, t, outcome, io)

\* Mutant: the health check runs after the dispatch on the state.
ensure_connected_DispatchFirst(m, t, alive, outcome) ==
    LET d == DispatchOnState(m, t, outcome, <<>>)
    IN  IF HealthCheckDue(m, t)
        THEN LET h == perform_health_check(d.m, alive)
             IN  [m |-> [h.m EXCEPT !.last_health_check = t],
                  ret |-> d.ret, io |-> d.io \o h.io]
        ELSE d

\* pub fn ensure_connected(&mut self) -> StdResult<&mut TcpStream>
ensure_connected(m, t, alive, outcome) ==
    IF HealthCheckDue(m, t)
    THEN LET h == perform_health_check(m, alive)
         IN  DispatchOnState([h.m EXCEPT !.last_health_check = t], t, outcome, h.io)
    ELSE DispatchOnState(m, t, outcome, <<>>)

\* Mutant: consecutive_failures is not reset.
handle_network_error_KeepsFailures(m, kind) ==
    IF kind \in ReconnectableKinds
    THEN [m |-> [m EXCEPT !.socket = None,
                          !.state = "Disconnected",
                          !.total_reconnections = @ + 1],
          ret |-> Ret("true"), io |-> DropSocket(m.socket)]
    ELSE [m |-> m, ret |-> Ret("false"), io |-> <<>>]

\* Mutant: the socket is dropped before the error is classified.
handle_network_error_AlwaysDrops(m, kind) ==
    IF kind \in ReconnectableKinds
    THEN [m |-> [m EXCEPT !.socket = None,
                          !.state = "Disconnected",
                          !.total_reconnections = @ + 1,
                          !.consecutive_failures = 0],
          ret |-> Ret("true"), io |-> DropSocket(m.socket)]
    ELSE [m |-> [m EXCEPT !.socket = None, !.state = "Disconnected"],
          ret |-> Ret("false"), io |-> DropSocket(m.socket)]

\* Mutant: a reconnectable error leaves the manager waiting for a backoff.
handle_network_error_ToReconnecting(m, kind) ==
    IF kind \in ReconnectableKinds
    THEN [m |-> [m EXCEPT !.socket = None,
                          !.state = "Reconnecting",
                          !.total_reconnections = @ + 1,
                          !.consecutive_failures = 0],
          ret |-> Ret("true"), io |-> DropSocket(m.socket)]
    ELSE [m |-> m, ret |-> Ret("false"), io |-> <<>>]

\* pub fn handle_network_error(&mut self, error: &std::io::Error) -> bool
handle_network_error(m, kind) ==
    IF kind \in ReconnectableKinds
    THEN [m |-> [m EXCEPT !.socket = None,
                          !.state = "Disconnected",
                          !.total_reconnections = @ + 1,
                          !.consecutive_failures = 0],
          ret |-> Ret("true"), io |-> DropSocket(m.socket)]
    ELSE [m |-> m, ret |-> Ret("false"), io |-> <<>>]

\* pub fn is_connected(&self) -> bool
is_connected(m) == m.state = "Connected" /\ m.socket # None

\* pub fn is_failed(&self) -> bool
is_failed(m) == m.state = "Failed"

\* Mutant: the two counters are reported in each other's place.
get_stats_SwapsCounters(m, t) ==
    [state |-> m.state,
     consecutive_failures |-> m.total_reconnections,
     total_reconnections |-> m.consecutive_failures,
     last_attempt_ago_ms |-> IF m.last_connection_attempt = None THEN 0
                             ELSE t - Unwrap(m.last_connection_attempt)]

\* pub fn get_stats(&self) -> ConnectionStats
get_stats(m, t) ==
    [state |-> m.state,
     consecutive_failures |-> m.consecutive_failures,
     total_reconnections |-> m.total_reconnections,
     last_attempt_ago_ms |-> IF m.last_connection_attempt = None THEN 0
                             ELSE t - Unwrap(m.last_connection_attempt)]

\* Mutant: the reset leaves the manager waiting for its backoff.
reset_failure_state_ToReconnecting(m) ==
    IF m.state = "Failed"
    THEN [m |-> [m EXCEPT !.state = "Reconnecting",
                          !.consecutive_failures = 0],
          ret |-> Ret("()"), io |-> <<>>]
    ELSE [m |-> m, ret |-> Ret("()"), io |-> <<>>]

\* Mutant: the reset does not look at the state.
reset_failure_state_Unconditional(m) ==
    [m |-> [m EXCEPT !.state = "Disconnected",
                     !.consecutive_failures = 0],
     ret |-> Ret("()"), io |-> <<>>]

\* pub fn reset_failure_state(&mut self)
reset_failure_state(m) ==
    IF m.state = "Failed"
    THEN [m |-> [m EXCEPT !.state = "Disconnected",
                          !.consecutive_failures = 0],
          ret |-> Ret("()"), io |-> <<>>]
    ELSE [m |-> m, ret |-> Ret("()"), io |-> <<>>]

\* Mutant: consecutive_failures survives the forced reconnect.
force_reconnect_KeepsFailures(m) ==
    [m |-> [m EXCEPT !.socket = None,
                     !.state = "Disconnected"],
     ret |-> Ret("()"), io |-> DropSocket(m.socket)]

\* pub fn force_reconnect(&mut self)
force_reconnect(m) ==
    [m |-> [m EXCEPT !.socket = None,
                     !.state = "Disconnected",
                     !.consecutive_failures = 0],
     ret |-> Ret("()"), io |-> DropSocket(m.socket)]

\* Mutant: the error of ensure_connected is passed on with `?`.
SendOnSession_PropagatesConnectError(e, write) ==
    IF e.ret.tag = "Ok"
    THEN IF write = "ok"
         THEN [m |-> e.m, ret |-> Ok("true"), io |-> e.io \o <<"send_image">>]
         ELSE LET h == handle_network_error(e.m, write)
              IN  IF h.ret.val = "true"
                  THEN [m |-> h.m, ret |-> Ok("false"),
                        io |-> e.io \o <<"send_image">> \o h.io]
                  ELSE [m |-> h.m, ret |-> Err(write),
                        io |-> e.io \o <<"send_image">> \o h.io]
    ELSE [m |-> e.m, ret |-> e.ret, io |-> e.io]

\* send_image_with_fallback from the return of ensure_connected on: e is what
\* ensure_connected did, write is "ok" or the ErrorKind send_image fails with.
SendOnSession(e, write) ==
    IF e.ret.tag = "Ok"
    THEN IF write = "ok"
         THEN [m |-> e.m, ret |-> Ok("true"), io |-> e.io \o <<"send_image">>]
         ELSE LET h == handle_network_error(e.m, write)
              IN  IF h.ret.val = "true"
                  THEN [m |-> h.m, ret |-> Ok("false"),
                        io |-> e.io \o <<"send_image">> \o h.io]
                  ELSE [m |-> h.m, ret |-> Err(write),
                        io |-> e.io \o <<"send_image">> \o h.io]
    ELSE [m |-> e.m, ret |-> Ok("false"), io |-> e.io]

\* pub fn send_image_with_fallback(&mut self, img, verbose) -> Result<bool, Error>
send_image_with_fallback(m, t, alive, outcome, write) ==
    SendOnSession(ensure_connected(m, t, alive, outcome), write)

----------------------------------------------------------------------------
(* The state machine *)

Configs ==
    [max_retries : 0..MaxRetries,
     initial_backoff_ms : {InitialBackoffMs},
     max_backoff_ms : {MaxBackoffMs},
     health_check_interval_ms : {HealthCheckIntervalMs}]

\* No call has returned since the object was made or the clock last moved.
NoCall == [op |-> "none", arg |-> "", from |-> "", after |-> "",
           ret |-> Ret("()"), io |-> <<>>]

Range(q) == {q[i] : i \in 1..Len(q)}

\* What a call that has returned did to the session, as far as the call
\* after it is concerned: "drop" when send_image_with_fallback met a
\* reconnectable write error, "reset" when reset_failure_state left Failed.
Event(call) ==
    IF /\ call.op = "send_image_with_fallback"
       /\ "send_image" \in Range(call.io)
       /\ call.arg \in ReconnectableKinds
    THEN "drop"
    ELSE IF call.op = "reset_failure_state" /\ call.from = "Failed"
    THEN "reset"
    ELSE ""

\* The threads that share the logger: main() and the monitor thread.
Threads == {"main", "monitor"}

\* The mutexes of DiagnosticLogger and of ResourceTracker.
Mutexes ==
    {"writer", "error_buffer", "last_summary", "capture_count",
     "last_hyperion_error", "prime_fds", "gem_handles"}

MaxMonitorThreads == 3        \* monitoring threads spawned in a run

\* No thread is inside the logger, the tracker or the system monitor: no
\* failure has been logged, no monitoring thread spawned, no mutex held.
InitIdle ==
    /\ last_hyperion_error = None
    /\ should_log = [t \in Threads |-> None]
    /\ writer = <<>>
    /\ monitoring = FALSE
    /\ monitors = [i \in 1..MaxMonitorThreads |-> "unspawned"]
    /\ lock_owner = [x \in Mutexes |-> "free"]
    /\ call_steps = [t \in Threads |-> <<>>]
    /\ server = "any"

\* main() is outside the specifications that drive the manager directly, and
\* the logger is empty and unused in them.
InitAux ==
    /\ pc = "api"
    /\ diagnostic = [mode |-> FALSE, logger |-> FALSE]
    /\ last_recovery_check = None
    /\ error_buffer = <<>>
    /\ log_pc = [t \in Threads |-> "idle"]
    /\ log_seq = 0
    /\ InitIdle

Init ==
    /\ InitAux
    /\ config \in Configs
    /\ socket = None
    /\ state = "Disconnected"
    /\ last_connection_attempt = None
    /\ consecutive_failures = 0
    /\ last_health_check = 0
    /\ total_reconnections = 0
    /\ now = 0
    /\ last = NoCall

\* The fields after a call that ended as r, and the record of the call.
Install(r, op, arg) ==
    /\ r.m.consecutive_failures <= MaxFailures
    /\ r.m.total_reconnections <= MaxReconnections
    /\ config' = r.m.config
    /\ socket' = r.m.socket
    /\ state' = r.m.state
    /\ last_connection_attempt' = r.m.last_connection_attempt
    /\ consecutive_failures' = r.m.consecutive_failures
    /\ last_health_check' = r.m.last_health_check
    /\ total_reconnections' = r.m.total_reconnections
    /\ last' = [op |-> op, arg |-> arg, from |-> state, after |-> Event(last),
                ret |-> r.ret, io |-> r.io]
    /\ UNCHANGED now

\* A call made on the manager directly.
Call(r, op, arg) == Install(r, op, arg) /\ UNCHANGED aux

\* The inputs a call consumes.  peer_addr is called only by a health check that
\* is due on a connected manager; the outcome of a connect attempt is drawn only
\* when the call attempts one; send_image is called only on a session.
AliveInputs(m, t) ==
    IF "peer_addr" \in Range(ensure_connected(m, t, TRUE, "ok").io)
    THEN BOOLEAN ELSE {TRUE}

ConnectInputs(m, t, alive) ==
    IF "connect" \in Range(ensure_connected(m, t, alive, "ok").io)
    THEN ConnectOutcomes ELSE {"ok"}

WriteInputs(m, t, alive, outcome) ==
    IF ensure_connected(m, t, alive, outcome).ret.tag = "Ok"
    THEN {"ok"} \cup ErrorKinds ELSE {"ok"}

EnsureConnected ==
    \E alive \in AliveInputs(Manager, now) :
      \E outcome \in ConnectInputs(Manager, now, alive) :
        \E r \in {ensure_connected(Manager, now, alive, outcome)} :
            Call(r, "ensure_connected", "")

SendImageWithFallback ==
    \E alive \in AliveInputs(Manager, now) :
      \E outcome \in ConnectInputs(Manager, now, alive) :
        \E write \in WriteInputs(Manager, now, alive, outcome) :
          \E r \in {send_image_with_fallback(Manager, now, alive, outcome, write)} :
            Call(r, "send_image_with_fallback", IF write = "ok" THEN "" ELSE write)

HandleNetworkError ==
    \E kind \in ErrorKinds :
        \E r \in {handle_network_error(Manager, kind)} :
            Call(r, "handle_network_error", kind)

ResetFailureState ==
    \E r \in {reset_failure_state(Manager)} :
        Call(r, "reset_failure_state", "")

ForceReconnect ==
    \E r \in {force_reconnect(Manager)} :
        Call(r, "force_reconnect", "")

IsConnected ==
    Call([m |-> Manager, ret |-> Ret(Bool(is_connected(Manager))), io |-> <<>>],
            "is_connected", "")

IsFailed ==
    Call([m |-> Manager, ret |-> Ret(Bool(is_failed(Manager))), io |-> <<>>],
            "is_failed", "")

GetStats ==
    Call([m |-> Manager, ret |-> [tag |-> "Stats", val |-> get_stats(Manager, now)],
             io |-> <<>>],
            "get_stats", "")

\* The clock advances between calls.
Tick ==
    /\ now < MaxTime
    /\ now' = now + 1
    /\ last' = NoCall
    /\ UNCHANGED <<fields, aux>>

Next ==
    \/ EnsureConnected
    \/ SendImageWithFallback
    \/ HandleNetworkError
    \/ ResetFailureState
    \/ ForceReconnect
    \/ IsConnected
    \/ IsFailed
    \/ GetStats
    \/ Tick

Spec == Init /\ [][Next]_vars

----------------------------------------------------------------------------
(* calculate_backoff_duration on its own: a manager that is waiting to     *)
(* retry, under the configuration main() builds (--max-retries from the   *)
(* command line, 100 ms and 5000 ms fixed), asked for its backoff.         *)

BackoffMaxRetries == 64       \* --max-retries in this specification
MainInitialBackoffMs == 100
MainMaxBackoffMs == 5000
MainHealthCheckIntervalMs == 30000

BackoffConfigs ==
    [max_retries : {BackoffMaxRetries},
     initial_backoff_ms : {1, MainInitialBackoffMs},
     max_backoff_ms : {MainMaxBackoffMs},
     health_check_interval_ms : {MainHealthCheckIntervalMs}]

InitBackoff ==
    /\ InitAux
    /\ config \in BackoffConfigs
    /\ socket = None
    /\ state = "Reconnecting"
    /\ last_connection_attempt = Some(0)
    /\ consecutive_failures \in 0..config.max_retries
    /\ last_health_check = 0
    /\ total_reconnections = 0
    /\ now = 0
    /\ last = NoCall

CalculateBackoff ==
    /\ last' = [op |-> "calculate_backoff_duration", arg |-> "",
                from |-> state, after |-> "",
                ret |-> [tag |-> "Duration",
                         val |-> calculate_backoff_duration(Manager)],
                io |-> <<>>]
    /\ UNCHANGED <<fields, now, aux>>

NextBackoff == CalculateBackoff

SpecBackoff == InitBackoff /\ [][NextBackoff]_vars

----------------------------------------------------------------------------
(* Scenario A: a fresh manager configured with max_retries 3, 100 ms and   *)
(* 5000 ms, driven by ensure_connected alone while the clock advances in   *)
(* steps of ScenarioTickMs.                                                *)

ScenarioTickMs == 50          \* clock step of the scenario, in ms
ScenarioMaxTime == 400        \* the scenario's clock stops here

ScenarioAConfig ==
    [max_retries |-> 3,
     initial_backoff_ms |-> MainInitialBackoffMs,
     max_backoff_ms |-> MainMaxBackoffMs,
     health_check_interval_ms |-> MainHealthCheckIntervalMs]

InitScenarioA ==
    /\ InitAux
    /\ config = ScenarioAConfig
    /\ socket = None
    /\ state = "Disconnected"
    /\ last_connection_attempt = None
    /\ consecutive_failures = 0
    /\ last_health_check = 0
    /\ total_reconnections = 0
    /\ now = 0
    /\ last = NoCall

TickScenarioA ==
    /\ now + ScenarioTickMs <= ScenarioMaxTime
    /\ now' = now + ScenarioTickMs
    /\ last' = NoCall
    /\ UNCHANGED <<fields, aux>>

NextScenarioA ==
    \/ EnsureConnected
    \/ TickScenarioA

SpecScenarioA == InitScenarioA /\ [][NextScenarioA]_vars

----------------------------------------------------------------------------
(* How long a connect attempt can take.  attempt_connection opens the      *)
(* socket with TcpStream::connect(&address), which is given no timeout and *)
(* blocks for as long as the operating system keeps trying; the socket's   *)
(* reads and writes are bounded by connection_timeout_ms, which the        *)
(* attempt sets on it before the handshake.                                *)

MaxTimeoutMs == 2             \* --connection-timeout ranges over 1..MaxTimeoutMs
ConnectBlockMs == 3           \* the longest the OS lets a connect block
TimingMaxTime == 8            \* the clock of this specification stops here

TimingConfigs ==
    [max_retries : {MaxRetries},
     initial_backoff_ms : {InitialBackoffMs},
     max_backoff_ms : {MaxBackoffMs},
     health_check_interval_ms : {HealthCheckIntervalMs},
     connection_timeout_ms : 1..MaxTimeoutMs]

\* TcpStream::connect(&self.config.address): no timeout is passed.
ConnectDurations(m) == 0..ConnectBlockMs

\* A read or write on a socket whose timeouts are connection_timeout_ms.
IoDurations(m) == 0..m.config.connection_timeout_ms

\* The calls of a connect attempt that read or write the socket.
BlockingIo(io) ==
    SelectSeq(io, LAMBDA x : x \in {"register", "read_reply", "send_color_warm"})

RECURSIVE SumSeq(_)
SumSeq(q) == IF q = <<>> THEN 0 ELSE Head(q) + SumSeq(Tail(q))

InitTiming ==
    /\ InitAux
    /\ config \in TimingConfigs
    /\ socket = None
    /\ state = "Disconnected"
    /\ last_connection_attempt = None
    /\ consecutive_failures = 0
    /\ last_health_check = 0
    /\ total_reconnections = 0
    /\ now = 0
    /\ last = NoCall

\* ensure_connected reaches attempt_connection: from Disconnected and Failed,
\* and from Reconnecting once the backoff has passed.
AttemptDue(m, t) ==
    \/ m.state \in {"Disconnected", "Failed"}
    \/ /\ m.state = "Reconnecting"
       /\ \/ m.last_connection_attempt = None
          \/ t - Unwrap(m.last_connection_attempt)
                >= calculate_backoff_duration(m)

\* One connect attempt, with the time each blocking call took.
AttemptTiming ==
    /\ AttemptDue(Manager, now)
    /\ \E outcome \in ConnectOutcomes :
      \E r \in {attempt_connection(Manager, now, outcome)} :
        \E c \in ConnectDurations(Manager) :
          \E w \in [1..Len(BlockingIo(r.io)) -> IoDurations(Manager)] :
            /\ r.m.consecutive_failures <= MaxFailures
            /\ now + c + SumSeq(w) <= TimingMaxTime
            /\ now' = now + c + SumSeq(w)
            /\ config' = r.m.config
            /\ socket' = r.m.socket
            /\ state' = r.m.state
            /\ last_connection_attempt' = r.m.last_connection_attempt
            /\ consecutive_failures' = r.m.consecutive_failures
            /\ last_health_check' = r.m.last_health_check
            /\ total_reconnections' = r.m.total_reconnections
            /\ last' = [op |-> "attempt_connection", arg |-> outcome,
                        from |-> state, after |-> "",
                        ret |-> [tag |-> "Duration",
                                 val |-> [connect |-> c, io |-> w]],
                        io |-> r.io]
            /\ UNCHANGED aux

\* The session is lost to a reset by the peer.
DropTiming ==
    /\ state = "Connected"
    /\ \E r \in {handle_network_error(Manager, "ConnectionReset")} :
          Call(r, "handle_network_error", "ConnectionReset")

TickTiming ==
    /\ now < TimingMaxTime
    /\ now' = now + 1
    /\ last' = NoCall
    /\ UNCHANGED <<fields, aux>>

NextTiming ==
    \/ AttemptTiming
    \/ DropTiming
    \/ TickTiming

SpecTiming == InitTiming /\ [][NextTiming]_vars

----------------------------------------------------------------------------
(* main(): the initial ensure_connected, then the capture loop.  One       *)
(* iteration captures and sends a frame, sleeps, and in diagnostic mode    *)
(* checks whether a Failed manager is due for a reset.  An iteration takes *)
(* MainTickMs: the sleep of the loop and whatever the capture and the      *)
(* calls before it took.                                                   *)

MainTickMs == 30000           \* the time one iteration of the loop takes
MainMaxTime == 300000         \* the clock of this specification stops here
RecoveryCheckIntervalMs == 120000

MainConfigs ==
    [max_retries : 0..MaxRetries,
     initial_backoff_ms : {MainInitialBackoffMs},
     max_backoff_ms : {MainMaxBackoffMs},
     health_check_interval_ms : {MainHealthCheckIntervalMs}]

InitMain ==
    /\ InitIdle
    /\ pc = "connect"
    /\ diagnostic \in [mode : BOOLEAN, logger : BOOLEAN]
    /\ last_recovery_check = None
    /\ error_buffer = <<>>
    /\ log_pc = [t \in Threads |-> "idle"]
    /\ log_seq = 0
    /\ config \in MainConfigs
    /\ socket = None
    /\ state = "Disconnected"
    /\ last_connection_attempt = None
    /\ consecutive_failures = 0
    /\ last_health_check = 0
    /\ total_reconnections = 0
    /\ now = 0
    /\ last = NoCall

\* if let Err(e) = connection_manager.ensure_connected() { log }
MainInitialConnect ==
    /\ pc = "connect"
    /\ \E alive \in AliveInputs(Manager, now) :
         \E outcome \in ConnectInputs(Manager, now, alive) :
           \E r \in {ensure_connected(Manager, now, alive, outcome)} :
             Install(r, "ensure_connected", "")
    /\ pc' = "capture"
    /\ UNCHANGED <<diagnostic, last_recovery_check, logv, hypv, monv, lockv, server>>

\* Mutant: main() returns the error of a frame that could not be sent.
AfterSend_Exits(ret) == IF ret.tag = "Err" THEN "exit" ELSE "sleep"

\* Where the loop goes with the result of dump_and_send_framebuffer: an Err
\* is logged and followed by a short sleep, and the loop goes on.
AfterSend(ret) == "sleep"

\* What find_framebuffer and dump_framebuffer_to_image give the iteration.
Captures == {"no_framebuffer", "dump_failed", "image"}

MainCaptureAndSend ==
    /\ pc = "capture"
    /\ \E capture \in Captures :
         IF capture = "image"
         THEN \E alive \in AliveInputs(Manager, now) :
                \E outcome \in ConnectInputs(Manager, now, alive) :
                  \E write \in WriteInputs(Manager, now, alive, outcome) :
                    \E r \in {send_image_with_fallback(Manager, now, alive,
                                                       outcome, write)} :
                      /\ Install(r, "send_image_with_fallback",
                                 IF write = "ok" THEN "" ELSE write)
                      /\ pc' = AfterSend(r.ret)
         ELSE /\ last' = NoCall
              /\ pc' = "sleep"
              /\ UNCHANGED <<fields, now>>
    /\ UNCHANGED <<diagnostic, last_recovery_check, logv, hypv, monv, lockv, server>>

MainSleep ==
    /\ pc = "sleep"
    /\ now + MainTickMs <= MainMaxTime
    /\ now' = now + MainTickMs
    /\ pc' = "recovery"
    /\ UNCHANGED <<fields, last, diagnostic, last_recovery_check, logv, hypv, monv, lockv, server>>

\* Mutant: the recovery check is made without --diagnostic as well.
RecoveryDue_IgnoresMode(d, m, lrc, t) ==
    /\ is_failed(m)
    /\ lrc = None \/ t - Unwrap(lrc) >= RecoveryCheckIntervalMs

\* The conditions under which the loop calls reset_failure_state.
RecoveryDue(d, m, lrc, t) ==
    /\ d.mode /\ d.logger
    /\ is_failed(m)
    /\ lrc = None \/ t - Unwrap(lrc) >= RecoveryCheckIntervalMs

MainRecovery ==
    /\ pc = "recovery"
    /\ IF RecoveryDue(diagnostic, Manager, last_recovery_check, now)
       THEN /\ \E r \in {reset_failure_state(Manager)} :
                 Install(r, "reset_failure_state", "")
            /\ last_recovery_check' = Some(now)
       ELSE /\ last' = NoCall
            /\ UNCHANGED <<fields, now, last_recovery_check>>
    /\ pc' = "capture"
    /\ UNCHANGED <<diagnostic, logv, hypv, monv, lockv, server>>

NextMain ==
    \/ MainInitialConnect
    \/ MainCaptureAndSend
    \/ MainSleep
    \/ MainRecovery

SpecMain == InitMain /\ [][NextMain]_vars

----------------------------------------------------------------------------
(* DiagnosticLogger::log_buffered, called by main() and by the monitor     *)
(* thread on the logger they share.  A call builds its entry, then takes   *)
(* the mutex of error_buffer, pushes the entry at the back, pops the front *)
(* when more than LogBufferCapacity entries are held, and releases the     *)
(* mutex.  An entry is identified by its place in the order of the pushes. *)

LogBufferCapacity == 100
MaxLogCalls == 102            \* log_buffered calls in this specification

InitLog ==
    /\ InitIdle
    /\ pc = "api"
    /\ diagnostic = [mode |-> TRUE, logger |-> TRUE]
    /\ last_recovery_check = None
    /\ error_buffer = <<>>
    /\ log_pc = [t \in Threads |-> "idle"]
    /\ log_seq = 0
    /\ config \in Configs
    /\ socket = None
    /\ state = "Disconnected"
    /\ last_connection_attempt = None
    /\ consecutive_failures = 0
    /\ last_health_check = 0
    /\ total_reconnections = 0
    /\ now = 0
    /\ last = NoCall

\* self.error_buffer.lock() succeeds only while no thread holds the guard.
LockFree == \A t \in Threads : log_pc[t] # "locked"

\* Mutant: the newest entry is dropped instead of the oldest.
TrimBuffer_DropsNewest(b) ==
    IF Len(b) > LogBufferCapacity THEN SubSeq(b, 1, Len(b) - 1) ELSE b

\* if buffer.len() > 100 { buffer.pop_front(); }
TrimBuffer(b) ==
    IF Len(b) > LogBufferCapacity THEN Tail(b) ELSE b

\* The call takes its timestamps and builds the LogEntry.
LogBuild(t) ==
    /\ log_pc[t] = "idle"
    /\ log_seq + Cardinality({u \in Threads : log_pc[u] # "idle"}) < MaxLogCalls
    /\ log_pc' = [log_pc EXCEPT ![t] = "built"]
    /\ UNCHANGED <<error_buffer, log_seq>>

\* The call takes the mutex and pushes its entry at the back.
LogPush(t) ==
    /\ log_pc[t] = "built"
    /\ LockFree
    /\ log_seq' = log_seq + 1
    /\ error_buffer' = Append(error_buffer, log_seq + 1)
    /\ log_pc' = [log_pc EXCEPT ![t] = "locked"]

\* The call trims the buffer and drops the guard.
LogTrim(t) ==
    /\ log_pc[t] = "locked"
    /\ error_buffer' = TrimBuffer(error_buffer)
    /\ log_pc' = [log_pc EXCEPT ![t] = "idle"]
    /\ UNCHANGED log_seq

NextLog ==
    \E t \in Threads :
        /\ LogBuild(t) \/ LogPush(t) \/ LogTrim(t)
        /\ UNCHANGED <<fields, now, last, mainv, hypv, monv, lockv, server>>

SpecLog == InitLog /\ [][NextLog]_vars

----------------------------------------------------------------------------
(* SystemMonitor (src/src/system_monitor.rs): start_monitoring tests and   *)
(* sets the monitoring flag under its mutex and then spawns a thread; the  *)
(* thread logs, then loops `while *monitoring.lock().unwrap()`: it collects *)
(* the metrics, sleeps for the interval and reads the flag again.          *)
(* stop_monitoring clears the flag.  The caller makes one call at a time.  *)

\* A spawned thread that has not left its loop.
Alive(i) == monitors[i] \in {"started", "collecting", "sleeping"}

\* The caller is between two calls.
CallerIdle == \A i \in 1..MaxMonitorThreads : monitors[i] # "spawning"

MonitorCall(op, ret) ==
    last' = [op |-> op, arg |-> "", from |-> "", after |-> "",
             ret |-> Ret(ret), io |-> <<>>]

\* pub fn start_monitoring(&self, interval_ms: u64), up to the thread::spawn
StartMonitoring ==
    /\ CallerIdle
    /\ IF monitoring
       THEN /\ MonitorCall("start_monitoring", "already running")
            /\ UNCHANGED monv
       ELSE \E i \in 1..MaxMonitorThreads :
              /\ monitors[i] = "unspawned"
              /\ \A j \in 1..(i - 1) : monitors[j] # "unspawned"
              /\ monitoring' = TRUE
              /\ monitors' = [monitors EXCEPT ![i] = "spawning"]
              /\ MonitorCall("start_monitoring", "spawning")
    /\ UNCHANGED <<fields, now, mainv, logv, hypv, lockv, server>>

\* thread::spawn(move || { logger.log("MONITOR", "System monitoring started");
SpawnMonitor ==
    /\ \E i \in 1..MaxMonitorThreads :
          /\ monitors[i] = "spawning"
          /\ monitors' = [monitors EXCEPT ![i] = "started"]
    /\ UNCHANGED <<fields, now, last, mainv, logv, hypv, lockv, server,
                   monitoring>>

\* while *monitoring.lock().unwrap() { ... }
\* logger.log("MONITOR", "System monitoring stopped");
MonitorCheck(i) ==
    /\ monitors[i] \in {"started", "sleeping"}
    /\ monitors' = [monitors EXCEPT
                      ![i] = IF monitoring THEN "collecting" ELSE "stopped"]
    /\ UNCHANGED <<fields, now, last, mainv, logv, hypv, lockv, server,
                   monitoring>>

\* The body of the loop, up to thread::sleep.
MonitorCollect(i) ==
    /\ monitors[i] = "collecting"
    /\ monitors' = [monitors EXCEPT ![i] = "sleeping"]
    /\ UNCHANGED <<fields, now, last, mainv, logv, hypv, lockv, server,
                   monitoring>>

\* pub fn stop_monitoring(&self)
StopMonitoring ==
    /\ CallerIdle
    /\ monitoring' = FALSE
    /\ MonitorCall("stop_monitoring", "()")
    /\ UNCHANGED <<fields, now, mainv, logv, hypv, lockv, server, monitors>>

NextMonitor ==
    \/ StartMonitoring
    \/ SpawnMonitor
    \/ StopMonitoring
    \/ \E i \in 1..MaxMonitorThreads : MonitorCheck(i)
    \/ \E i \in 1..MaxMonitorThreads : MonitorCollect(i)

SpecMonitor == Init /\ [][NextMonitor]_vars

----------------------------------------------------------------------------
(* DiagnosticLogger::log_hyperion_operation with success == false, called  *)
(* by the threads that share the logger.  The call takes the mutex of      *)
(* last_hyperion_error, reads the system clock, decides and releases the   *)
(* mutex in one step; a call that decided to log then writes its           *)
(* HYPERION_ERROR line with log_immediate.  The clock here is SystemTime,   *)
(* which may be set back.  (With success == true the call is a             *)
(* log_buffered, the subject of SpecLog.)                                   *)

HyperionErrorWindowMs == 10000
HyperionTickMs == 5000
HyperionMaxTime == 30000

\* now.duration_since(last).unwrap_or(Duration::ZERO)
DurationSince(t, earlier) == IF t >= earlier THEN t - earlier ELSE 0

\* Mutant: the window must be exceeded, not merely reached.
HyperionErrorDue_Strict(lhe, t) ==
    \/ lhe = None
    \/ DurationSince(t, Unwrap(lhe)) > HyperionErrorWindowMs

\* The value of should_log, from *last_error and the clock.
HyperionErrorDue(lhe, t) ==
    \/ lhe = None
    \/ DurationSince(t, Unwrap(lhe)) >= HyperionErrorWindowMs

\* let should_log = { let mut last_error = ...lock().unwrap(); ... };
LogHyperionFailure(t) ==
    /\ should_log[t] = None
    /\ LET due == HyperionErrorDue(last_hyperion_error, now)
       IN  /\ last_hyperion_error' =
                 IF due THEN Some(now) ELSE last_hyperion_error
           /\ should_log' =
                 [should_log EXCEPT ![t] = IF due THEN Some(now) ELSE None]
           /\ last' = [op |-> "log_hyperion_operation", arg |-> t,
                       from |-> "", after |-> "",
                       ret |-> Ret(Bool(due)), io |-> <<>>]
    /\ UNCHANGED <<fields, now, mainv, logv, monv, lockv, server, writer>>

\* if should_log { self.log_immediate("HYPERION_ERROR", ...); }
HyperionEmit(t) ==
    /\ should_log[t] # None
    /\ writer' = Append(writer, [by |-> t, decided |-> Unwrap(should_log[t])])
    /\ should_log' = [should_log EXCEPT ![t] = None]
    /\ last' = [op |-> "log_immediate", arg |-> t, from |-> "", after |-> "",
                ret |-> Ret("()"), io |-> <<>>]
    /\ UNCHANGED <<fields, now, mainv, logv, monv, lockv, server,
                   last_hyperion_error>>

TickHyperion ==
    /\ now + HyperionTickMs <= HyperionMaxTime
    /\ now' = now + HyperionTickMs
    /\ last' = NoCall
    /\ UNCHANGED <<fields, aux>>

\* The system clock is set back.
ClockSetBack ==
    /\ \E k \in 1..(HyperionMaxTime \div HyperionTickMs) :
          /\ now - k * HyperionTickMs >= 0
          /\ now' = now - k * HyperionTickMs
    /\ last' = NoCall
    /\ UNCHANGED <<fields, aux>>

NextHyperion ==
    \/ \E t \in Threads : LogHyperionFailure(t)
    \/ \E t \in Threads : HyperionEmit(t)
    \/ TickHyperion
    \/ ClockSetBack

SpecHyperion == Init /\ [][NextHyperion]_vars

----------------------------------------------------------------------------
(* The mutexes of DiagnosticLogger and ResourceTracker.  A logging call is  *)
(* the sequence of the lock and unlock steps it makes, in program order: a  *)
(* guard is dropped at the end of the block (or statement) that took it.    *)
(* A thread is inside one call at a time; a lock step waits until the       *)
(* mutex is free.  std::sync::Mutex is not reentrant: a thread that locks   *)
(* a mutex it holds never proceeds.                                         *)

MaxLogLines == 2              \* entries dumped or lines written by one loop

Lock(x) == <<"lock", x>>

Unlock(x) == <<"unlock", x>>

\* A guard taken and dropped with no call made under it.
Critical(x) == <<Lock(x), Unlock(x)>>

RECURSIVE Repeat(_, _)
Repeat(steps, n) == IF n = 0 THEN <<>> ELSE steps \o Repeat(steps, n - 1)

\* Mutant: log_immediate looks into the buffer while it holds the writer.
log_immediate_ReadsBuffer ==
    <<Lock("writer")>> \o Critical("error_buffer") \o <<Unlock("writer")>>

\* pub fn log_immediate(&self, category: &str, message: &str)
log_immediate == Critical("writer")

\* pub fn log_buffered(&self, category: &str, message: &str)
log_buffered == Critical("error_buffer")

\* fn dump_error_context(&self), with n entries in the buffer
dump_error_context(n) ==
    <<Lock("error_buffer")>>
    \o (IF n > 0
        THEN log_immediate \o Repeat(Critical("writer"), n) \o log_immediate
        ELSE <<>>)
    \o <<Unlock("error_buffer")>>

ImmediateCategories == {"ERROR", "WARN", "SESSION", "INIT", "CRASH", "SUMMARY"}

\* pub fn log(&self, category: &str, message: &str)
log(category, n) ==
    IF category \in ImmediateCategories
    THEN log_immediate
         \o (IF category = "ERROR" THEN dump_error_context(n) ELSE <<>>)
    ELSE log_buffered

\* pub fn log_error(&self, error: &str)
log_error(n) == log("ERROR", n)

\* pub fn log_warning(&self, warning: &str)
log_warning == log("WARN", 0)

\* pub fn log_hyperion_operation(&self, operation, success, details)
log_hyperion_operation(success, due) ==
    IF success THEN log_buffered
    ELSE Critical("last_hyperion_error")
         \o (IF due THEN log_immediate ELSE <<>>)

\* fn log_system_summary(&self), writing k lines
log_system_summary(k) == Repeat(log_immediate, k)

\* pub fn maybe_log_summary(&self)
maybe_log_summary(due, k) ==
    Critical("last_summary")
    \o (IF due
        THEN Critical("capture_count") \o log_immediate
             \o log_system_summary(k)
        ELSE <<>>)

\* pub fn log_capture_success(&self)
log_capture_success(due, k) ==
    Critical("capture_count") \o maybe_log_summary(due, k)

\* ResourceTracker::track_prime_fd, track_gem_handle
track(x) == <<Lock(x)>> \o log("TRACK", 0) \o <<Unlock(x)>>

\* ResourceTracker::untrack_prime_fd, untrack_gem_handle
untrack(x, found) ==
    <<Lock(x)>>
    \o (IF found THEN log("TRACK", 0) ELSE log_warning)
    \o <<Unlock(x)>>

\* The calls the capture thread and the monitoring thread make.
LogCalls ==
    {log_immediate, log_buffered, log_warning}
    \cup {log(c, 0) : c \in {"MONITOR", "CAPTURE_ERROR", "SESSION"}}
    \cup {log_error(n) : n \in 0..MaxLogLines}
    \cup {log_hyperion_operation(s, d) : s \in BOOLEAN, d \in BOOLEAN}
    \cup {log_capture_success(d, k) : d \in BOOLEAN, k \in 0..MaxLogLines}
    \cup {track(x) : x \in {"prime_fds", "gem_handles"}}
    \cup {untrack(x, f) : x \in {"prime_fds", "gem_handles"}, f \in BOOLEAN}

InCall(t) == call_steps[t] # <<>>

\* The thread's next step can be taken.
CanStep(t) ==
    /\ InCall(t)
    /\ Head(call_steps[t])[1] = "lock"
          => lock_owner[Head(call_steps[t])[2]] = "free"

BeginLogCall(t) ==
    /\ ~InCall(t)
    /\ \E c \in LogCalls : call_steps' = [call_steps EXCEPT ![t] = c]
    /\ UNCHANGED lock_owner

LockStep(t) ==
    /\ InCall(t)
    /\ Head(call_steps[t])[1] = "lock"
    /\ lock_owner[Head(call_steps[t])[2]] = "free"
    /\ lock_owner' = [lock_owner EXCEPT ![Head(call_steps[t])[2]] = t]
    /\ call_steps' = [call_steps EXCEPT ![t] = Tail(@)]

UnlockStep(t) ==
    /\ InCall(t)
    /\ Head(call_steps[t])[1] = "unlock"
    /\ lock_owner' = [lock_owner EXCEPT ![Head(call_steps[t])[2]] = "free"]
    /\ call_steps' = [call_steps EXCEPT ![t] = Tail(@)]

ThreadStep(t) ==
    /\ LockStep(t) \/ UnlockStep(t)
    /\ UNCHANGED <<fields, now, last, mainv, logv, hypv, monv, server>>

NextLocks ==
    \E t \in Threads :
        \/ BeginLogCall(t)
             /\ UNCHANGED <<fields, now, last, mainv, logv, hypv, monv, server>>
        \/ ThreadStep(t)

\* The scheduler runs every thread that can run, and a mutex that is
\* released again and again is eventually given to a thread waiting for it.
SpecLocks ==
    /\ Init
    /\ [][NextLocks]_vars
    /\ \A t \in Threads : SF_vars(ThreadStep(t))

----------------------------------------------------------------------------
(* Self-healing: the caller keeps calling ensure_connected or               *)
(* send_image_with_fallback while the clock advances, and from some point   *)
(* on the server accepts every connection and completes every handshake.    *)
(* The connect outcome is then decided by the program alone:                *)
(* set_read_timeout(Some(d)) fails exactly when d is zero, and              *)
(* --connection-timeout takes any u64.  So that time never stops, the clock *)
(* that has reached MaxTime keeps its value and the two instants the        *)
(* manager holds move one tick into the past instead; MaxTime exceeds every *)
(* duration they are compared with.                                         *)

HealConfigs ==
    [max_retries : {MaxRetries},
     initial_backoff_ms : {InitialBackoffMs},
     max_backoff_ms : {MaxBackoffMs},
     health_check_interval_ms : {HealthCheckIntervalMs},
     connection_timeout_ms : 0..MaxTimeoutMs]

InitHeal ==
    /\ InitAux
    /\ config \in HealConfigs
    /\ socket = None
    /\ state = "Disconnected"
    /\ last_connection_attempt = None
    /\ consecutive_failures = 0
    /\ last_health_check = 0
    /\ total_reconnections = 0
    /\ now = 0
    /\ last = NoCall

\* What a connect attempt meets: Duration::from_millis(0) is refused by
\* set_read_timeout; otherwise the server decides.
HealOutcomes(m, srv) ==
    IF m.config.connection_timeout_ms = 0
    THEN IF srv = "up" THEN {"read_timeout_fail"}
         ELSE {"tcp_fail", "read_timeout_fail"}
    ELSE IF srv = "up" THEN {"ok"}
         ELSE ConnectOutcomes \ {"read_timeout_fail", "write_timeout_fail"}

HealInputs(m, t, alive, srv) ==
    IF "connect" \in Range(ensure_connected(m, t, alive, "ok").io)
    THEN HealOutcomes(m, srv) ELSE {"ok"}

EnsureHeal ==
    \E alive \in AliveInputs(Manager, now) :
      \E outcome \in HealInputs(Manager, now, alive, server) :
        \E r \in {ensure_connected(Manager, now, alive, outcome)} :
            Call(r, "ensure_connected", "")

SendHeal ==
    \E alive \in AliveInputs(Manager, now) :
      \E outcome \in HealInputs(Manager, now, alive, server) :
        \E write \in WriteInputs(Manager, now, alive, outcome) :
          \E r \in {send_image_with_fallback(Manager, now, alive, outcome, write)} :
            Call(r, "send_image_with_fallback", IF write = "ok" THEN "" ELSE write)

\* From here on the server accepts and answers.
ServerUp ==
    /\ server = "any"
    /\ server' = "up"
    /\ UNCHANGED <<fields, now, last, mainv, logv, hypv, monv, lockv>>

Earlier(t) == IF t > 0 THEN t - 1 ELSE 0

TickHeal ==
    /\ last' = NoCall
    /\ IF now < MaxTime
       THEN /\ now' = now + 1
            /\ UNCHANGED <<last_connection_attempt, last_health_check>>
       ELSE /\ now' = now
            /\ last_connection_attempt' =
                  {Earlier(t) : t \in last_connection_attempt}
            /\ last_health_check' = Earlier(last_health_check)
    /\ UNCHANGED <<config, socket, state, consecutive_failures,
                   total_reconnections, aux>>

NextHeal ==
    \/ EnsureHeal
    \/ SendHeal
    \/ ResetFailureState
    \/ ForceReconnect
    \/ ServerUp
    \/ TickHeal

\* A call of the caller's loop has just returned.
CallerCalled == last.op \in {"ensure_connected", "send_image_with_fallback"}

\* Time keeps advancing and the caller keeps calling.
SpecHeal ==
    /\ InitHeal
    /\ [][NextHeal]_vars
    /\ WF_vars(TickHeal)
    /\ []<>CallerCalled

----------------------------------------------------------------------------
(* The claims *)

\* min(initial * 2^e, cap) over the integers, by doubling up to the cap.
RECURSIVE CappedDoubling(_, _, _)
CappedDoubling(i, e, cap) ==
    IF i > cap THEN cap
    ELSE IF e = 0 THEN i
    ELSE CappedDoubling(2 * i, e - 1, cap)

\* min(initial_backoff * 2^max(f-1,0), max_backoff)
ExactBackoff(c, f) ==
    CappedDoubling(c.initial_backoff_ms, IF f >= 1 THEN f - 1 ELSE 0, c.max_backoff_ms)

Connects(call) == "connect" \in Range(call.io)

\* The call made a connect attempt that ended in handle_connection_failure:
\* TcpStream::connect failed, or the handshake on the opened socket did.
FailureHandled(call) ==
    /\ Connects(call)
    /\ "send_image" \notin Range(call.io)
    /\ "register" \in Range(call.io) \/ "set_read_timeout" \notin Range(call.io)
    /\ \/ call.op = "ensure_connected" /\ call.ret.tag = "Err"
       \/ call.op = "send_image_with_fallback" /\ call.ret = Ok("false")

\* C1: between the public operations the socket is present if and only if
\* the state is Connected.
C1_SocketIffConnected == (socket # None) <=> (state = "Connected")

\* A session that dropped once and is connected again.
C1_Witness ==
    /\ state = "Connected" /\ socket # None
    /\ total_reconnections >= 1
    /\ last.op = "send_image_with_fallback"

\* C2: once the state is Failed, a call of ensure_connected attempts no
\* connect and leaves the state Failed and consecutive_failures as they were.
C2_FailedAttemptsNoConnect ==
    [][(state = "Failed" /\ last'.op = "ensure_connected")
          => (/\ ~Connects(last')
              /\ state' = "Failed"
              /\ consecutive_failures' = consecutive_failures)]_vars

\* C3: failure handling after a failed connect attempt adds one to
\* consecutive_failures and leaves no socket; the state is Failed if the new
\* count has reached max_retries (is at least max_retries) and Reconnecting
\* otherwise.
C3_FailureHandling ==
    [][FailureHandled(last')
          => (/\ consecutive_failures' = consecutive_failures + 1
              /\ socket' = None
              /\ state' = IF consecutive_failures' >= config.max_retries
                          THEN "Failed" ELSE "Reconnecting")]_vars

\* The limit of two reached by the second failure.
C3_Witness ==
    /\ last.op = "ensure_connected" /\ last.ret = Err("ConnectError")
    /\ config.max_retries = 2 /\ consecutive_failures = 2
    /\ state = "Failed" /\ socket = None

\* C4: for every f in 0..max_retries the backoff computed with
\* consecutive_failures = f is min(initial_backoff * 2^max(f-1,0), max_backoff).
C4_BackoffIsCappedExponential ==
    last.op = "calculate_backoff_duration"
        => last.ret.val = ExactBackoff(config, consecutive_failures)

\* C5: ensure_connected in state Reconnecting, called before the backoff has
\* elapsed since the last attempt, returns the backoff error, does no IO and
\* leaves state, counters and the attempt time alone; called once the backoff
\* has elapsed it attempts a connect.
C5_BackoffGate ==
    [][(/\ last'.op = "ensure_connected"
        /\ state = "Reconnecting"
        /\ last_connection_attempt # None)
          => IF now - Unwrap(last_connection_attempt)
                   < ExactBackoff(config, consecutive_failures)
             THEN /\ last'.ret = Err("BackoffActive")
                  /\ last'.io = <<>>
                  /\ UNCHANGED <<state, socket, consecutive_failures,
                                 total_reconnections, last_connection_attempt>>
             ELSE /\ Connects(last')
                  /\ last_connection_attempt' = Some(now)]_vars

C5_Witness ==
    /\ last.op = "ensure_connected" /\ last.ret = Err("BackoffActive")
    /\ state = "Reconnecting"
    /\ now > Unwrap(last_connection_attempt)

\* C6: handle_network_error with a reconnectable kind drops the socket, sets
\* the state to Disconnected and consecutive_failures to 0, adds exactly one
\* to total_reconnections and returns true.
C6_ReconnectableError ==
    [][(/\ last'.arg \in ReconnectableKinds
        /\ last'.op \in {"handle_network_error", "send_image_with_fallback"})
          => (/\ socket' = None
              /\ state' = "Disconnected"
              /\ consecutive_failures' = 0
              /\ total_reconnections' = total_reconnections + 1
              /\ last'.op = "handle_network_error" => last'.ret = Ret("true"))]_vars

\* The error reported while the manager was counting connect failures.
C6_Witness ==
    /\ last.op = "handle_network_error" /\ last.arg = "ConnectionReset"
    /\ last.ret = Ret("true")
    /\ state = "Disconnected" /\ total_reconnections = 1

\* C7: handle_network_error with any other kind changes no field and returns
\* false, and send_image_with_fallback returns that error: what the call
\* leaves is what its ensure_connected left.
C7_FatalError ==
    [][/\ (last'.op = "handle_network_error" /\ last'.arg \in FatalKinds)
            => (UNCHANGED fields /\ last'.ret = Ret("false"))
       /\ (last'.op = "send_image_with_fallback" /\ last'.arg \in FatalKinds)
            => /\ last'.ret = Err(last'.arg)
               /\ \E alive \in BOOLEAN, outcome \in ConnectOutcomes :
                    LET e == ensure_connected(Manager, now, alive, outcome)
                    IN  e.ret.tag = "Ok" /\ Manager' = e.m]_vars

C7_Witness ==
    /\ last.op = "send_image_with_fallback" /\ last.ret = Err("TimedOut")
    /\ state = "Connected" /\ socket # None

\* C8: send_image_with_fallback returns an error only when send_image failed
\* on a session with a kind that is not reconnectable; a call whose
\* ensure_connected failed, or whose write failed reconnectably, returns
\* Ok(false).
C8_OnlyFatalWriteErrors ==
    last.op = "send_image_with_fallback"
        => /\ last.ret.tag = "Err"
                => (/\ "send_image" \in Range(last.io)
                    /\ last.arg \in FatalKinds
                    /\ last.ret.val = last.arg)
           /\ "send_image" \notin Range(last.io) => last.ret = Ok("false")
           /\ last.arg \in ReconnectableKinds => last.ret = Ok("false")

\* A connect attempt that failed inside the call, absorbed.
C8_Witness ==
    /\ last.op = "send_image_with_fallback" /\ last.ret = Ok("false")
    /\ Connects(last) /\ "send_image" \notin Range(last.io)
    /\ state = "Reconnecting"

\* C9: send_image_with_fallback called in state Failed returns Ok(false)
\* without any IO and without changing the state or the counters.
C9_FailedSendDoesNoIO ==
    [][(state = "Failed" /\ last'.op = "send_image_with_fallback")
          => (/\ last'.ret = Ok("false")
              /\ last'.io = <<>>
              /\ UNCHANGED <<state, socket, consecutive_failures,
                             total_reconnections>>)]_vars

\* C10: a health check made while the state is Disconnected, Reconnecting or
\* Failed changes nothing: the check itself returns the manager as it was,
\* and an ensure_connected that runs it does what its dispatch alone does.
C10_HealthCheckNoOpUnlessConnected ==
    [][(state # "Connected")
          => /\ \A alive \in BOOLEAN :
                  perform_health_check(Manager, alive)
                      = [m |-> Manager, ret |-> Ret("()"), io |-> <<>>]
             /\ (last'.op = "ensure_connected" /\ HealthCheckDue(Manager, now))
                  => \E outcome \in ConnectOutcomes :
                       LET d == DispatchOnState(
                                    [Manager EXCEPT !.last_health_check = now],
                                    now, outcome, <<>>)
                       IN  /\ Manager' = d.m
                           /\ last'.ret = d.ret
                           /\ last'.io = d.io]_vars

\* The check ran during a backoff and the call was refused as without it.
C10_Witness ==
    /\ last.op = "ensure_connected" /\ last.ret = Err("BackoffActive")
    /\ state = "Reconnecting"
    /\ last_health_check = now /\ now >= config.health_check_interval_ms

\* C11: a health check on a Connected manager that finds the transport dead
\* sets the state to Disconnected and drops the socket and changes neither
\* counter; one that finds it alive changes nothing.  An ensure_connected in
\* which the check is due goes on from exactly that manager.
C11_HealthCheckOnConnected ==
    [][(state = "Connected" /\ socket # None)
          => /\ perform_health_check(Manager, FALSE).m
                  = [Manager EXCEPT !.socket = None, !.state = "Disconnected"]
             /\ perform_health_check(Manager, TRUE).m = Manager
             /\ (last'.op = "ensure_connected" /\ HealthCheckDue(Manager, now))
                  => \E alive \in BOOLEAN, outcome \in ConnectOutcomes :
                       LET after == IF alive THEN Manager
                                    ELSE [Manager EXCEPT !.socket = None,
                                                         !.state = "Disconnected"]
                           d == DispatchOnState(
                                    [after EXCEPT !.last_health_check = now],
                                    now, outcome,
                                    IF alive THEN <<"peer_addr">>
                                    ELSE <<"peer_addr", "close">>)
                       IN  /\ Manager' = d.m
                           /\ last'.ret = d.ret
                           /\ last'.io = d.io]_vars

\* The check found the transport dead and the call went on to reconnect.
C11_Witness ==
    /\ last.op = "ensure_connected" /\ last.from = "Connected"
    /\ Len(last.io) >= 3
    /\ last.io[1] = "peer_addr" /\ last.io[2] = "close" /\ last.io[3] = "connect"
    /\ state = "Connected" /\ total_reconnections = 0

\* C12: reset_failure_state called in state Failed sets the state to
\* Disconnected and consecutive_failures to 0, and the next ensure_connected
\* attempts a connect whatever time has passed since the last attempt.
C12_ResetThenImmediateAttempt ==
    [][/\ (last'.op = "reset_failure_state" /\ state = "Failed")
            => (/\ state' = "Disconnected"
                /\ consecutive_failures' = 0
                /\ socket' = None)
       /\ (/\ last'.op = "ensure_connected"
           /\ \/ Event(last) = "reset"
              \/ state = "Disconnected")
            => (Connects(last') /\ last_connection_attempt' = Some(now))]_vars

\* Failure, reset and the next attempt, all in the first instant.
C12_Witness ==
    /\ last.op = "ensure_connected" /\ last.after = "reset"
    /\ last.from = "Disconnected"
    /\ Connects(last)
    /\ now = 0

\* C13: reset_failure_state called in any other state changes no field; a
\* backoff pending in Reconnecting stays pending.
C13_ResetOnlyWhenFailed ==
    [][(last'.op = "reset_failure_state" /\ state # "Failed")
          => UNCHANGED fields]_vars

C13_Witness ==
    /\ last.op = "reset_failure_state" /\ last.from = "Reconnecting"
    /\ state = "Reconnecting" /\ consecutive_failures >= 1
    /\ last_connection_attempt = Some(now)

\* C14: force_reconnect, in any state, drops the socket, sets the state to
\* Disconnected and consecutive_failures to 0 and leaves total_reconnections.
C14_ForceReconnect ==
    [][(last'.op = "force_reconnect")
          => (/\ socket' = None
              /\ state' = "Disconnected"
              /\ consecutive_failures' = 0
              /\ total_reconnections' = total_reconnections
              /\ last'.io = DropSocket(socket))]_vars

C14_Witness ==
    /\ last.op = "force_reconnect" /\ last.from = "Failed"
    /\ state = "Disconnected" /\ socket = None /\ consecutive_failures = 0

\* The call opened a transport and completed the handshake on it.
Connected(call) ==
    Connects(call) /\ "send_color_warm" \in Range(call.io)
        /\ IF call.op = "ensure_connected" THEN call.ret = Ok("socket")
           ELSE "send_image" \in Range(call.io)

\* C15: after a connect attempt that succeeded the state is Connected,
\* consecutive_failures is 0 and is_connected() is true; whenever the state is
\* Failed, is_connected() is false and is_failed() is true.
C15_ConnectedAndFailedQueries ==
    [][/\ (last'.op = "ensure_connected" /\ Connected(last'))
            => (/\ state' = "Connected"
                /\ consecutive_failures' = 0
                /\ is_connected(Manager'))
       /\ (last'.op = "is_connected" /\ last.op = "ensure_connected"
              /\ Connected(last))
            => last'.ret = Ret("true")
       /\ state' = "Failed" => (~is_connected(Manager') /\ is_failed(Manager'))
       /\ (last'.op = "is_connected" /\ state = "Failed")
            => last'.ret = Ret("false")
       /\ (last'.op = "is_failed" /\ state = "Failed")
            => last'.ret = Ret("true")]_vars

\* Connected by the retry that followed a failed attempt.
C15_Witness ==
    /\ last.op = "ensure_connected" /\ last.from = "Reconnecting"
    /\ Connected(last)
    /\ state = "Connected" /\ consecutive_failures = 0

\* The commands written to the transport a call opened, in order.
RECURSIVE AfterConnect(_)
AfterConnect(q) ==
    IF q = <<>> THEN <<>>
    ELSE IF Head(q) = "connect" THEN Tail(q)
    ELSE AfterConnect(Tail(q))

Handshake == <<"register", "read_reply">>

Protocol(q) ==
    SelectSeq(q, LAMBDA x :
        x \in {"register", "read_reply", "send_color_warm", "send_image"})

IsPrefix(a, b) == Len(a) <= Len(b) /\ SubSeq(b, 1, Len(a)) = a

Count(q, x) == Cardinality({i \in 1..Len(q) : q[i] = x})

\* C16: on every transport Register is written exactly once and its reply is
\* read before any Color or Image command is written; a frame is written
\* only to a transport whose handshake completed.
C16_HandshakeBeforeFrames ==
    [][/\ socket' # None
            => (/\ IsPrefix(Handshake, Unwrap(socket').log)
                /\ Count(Unwrap(socket').log, "register") = 1)
       /\ LET io == last'.io
              wire == Protocol(io)
          IN  /\ Count(io, "connect") <= 1
              /\ Count(io, "register") <= Count(io, "connect")
              /\ IF Connects(last')
                 THEN /\ wire = Protocol(AfterConnect(io))
                      /\ wire # <<>> => wire[1] = "register"
                      /\ Len(wire) > 2 => IsPrefix(Handshake, wire)
                      /\ "send_image" \in Range(wire)
                            => IsPrefix(Handshake \o <<"send_color_warm">>, wire)
                 ELSE /\ wire \in {<<>>, <<"send_image">>}
                      /\ wire # <<>>
                            => (/\ socket # None
                                /\ IsPrefix(Handshake \o <<"send_color_warm">>,
                                            Unwrap(socket).log))]_vars

\* A frame sent on a transport opened by the same call.
C16_Witness ==
    /\ last.op = "send_image_with_fallback" /\ last.ret = Ok("true")
    /\ Connects(last)
    /\ socket # None

\* What a failure handled with the counter at k leaves behind in scenario A.
ScenarioAFailure(k) ==
    (last'.op = "ensure_connected" /\ FailureHandled(last')
        /\ consecutive_failures = k)
      => /\ consecutive_failures' = k + 1
         /\ state' = IF k + 1 >= 3 THEN "Failed" ELSE "Reconnecting"
         /\ last_connection_attempt' = Some(now)

\* The call made with the counter at k attempts a connect exactly when
\* gate ms have passed since the last attempt.
ScenarioAGate(k, gate) ==
    (last'.op = "ensure_connected" /\ consecutive_failures = k
        /\ last_connection_attempt # None)
      => (Connects(last') <=> now - Unwrap(last_connection_attempt) >= gate)

\* C17 as stated: with max_retries=3, 100 ms and 5000 ms, three consecutive
\* connect failures from a fresh manager end in Failed with
\* consecutive_failures = 3, and the next attempt after the first, second and
\* third failure waits 100 ms, 200 ms and 400 ms.
C17_ScenarioA_AsStated ==
    [][/\ \A k \in 0..2 : ScenarioAFailure(k)
       /\ ScenarioAGate(1, 100)
       /\ ScenarioAGate(2, 200)
       /\ ScenarioAGate(3, 400)]_vars

\* C17: with max_retries=3, 100 ms and 5000 ms, three consecutive failures at
\* TCP connect or in the handshake from a fresh manager end in Failed with
\* consecutive_failures = 3; the attempts after the first and second failure
\* wait 100 ms and 200 ms; the third failure leaves the manager Failed, and in
\* Failed no call is refused for a backoff period: 400 ms gates nothing.
C17_ScenarioA ==
    [][/\ \A k \in 0..2 : ScenarioAFailure(k)
       /\ ScenarioAGate(1, 100)
       /\ ScenarioAGate(2, 200)
       /\ (consecutive_failures = 1 /\ state # "Connected")
             => (state = "Reconnecting"
                   /\ calculate_backoff_duration(Manager) = 100)
       /\ (consecutive_failures = 2 /\ state # "Connected")
             => (state = "Reconnecting"
                   /\ calculate_backoff_duration(Manager) = 200)
       /\ (state = "Failed" /\ last'.op = "ensure_connected")
             => last'.ret # Err("BackoffActive")]_vars

\* Failed at the earliest instant the two backoffs allow.
C17_Witness ==
    /\ last.op = "ensure_connected" /\ last.from = "Reconnecting"
    /\ FailureHandled(last)
    /\ state = "Failed" /\ consecutive_failures = 3
    /\ now = 300 /\ last_connection_attempt = Some(300)

\* The call made a connect attempt that did not end in state Connected.
FailedAttempt(call) ==
    /\ Connects(call)
    /\ "send_image" \notin Range(call.io)
    /\ \/ call.op = "ensure_connected" /\ call.ret.tag = "Err"
       \/ call.op = "send_image_with_fallback" /\ call.ret = Ok("false")

\* C18: every connect attempt that does not end in state Connected runs
\* failure handling exactly once: consecutive_failures grows by exactly 1 and
\* the socket is gone, whether the failure was at TCP connect, while setting
\* the socket's IO timeouts, or in the handshake.
C18_EveryFailedAttemptCounted ==
    [][FailedAttempt(last')
          => (/\ consecutive_failures' = consecutive_failures + 1
              /\ socket' = None
              /\ state' = IF consecutive_failures' >= config.max_retries
                          THEN "Failed" ELSE "Reconnecting")]_vars

\* The call reports a reconnectable error met on a session.
ReportsDrop(call) ==
    \/ call.op = "handle_network_error" /\ call.arg \in ReconnectableKinds
    \/ /\ call.op = "send_image_with_fallback"
       /\ "send_image" \in Range(call.io)
       /\ call.arg \in ReconnectableKinds

\* C19: total_reconnections never decreases and changes only by +1, in a step
\* that reports a reconnectable runtime error while the state is Connected;
\* connect failures, health checks, reset_failure_state and force_reconnect
\* never change it.
C19_ReconnectionsCountDrops ==
    [][/\ total_reconnections' >= total_reconnections
       /\ total_reconnections' # total_reconnections
            => (/\ total_reconnections' = total_reconnections + 1
                /\ ReportsDrop(last')
                /\ \/ last'.op = "handle_network_error" /\ state = "Connected"
                   \/ last'.op = "send_image_with_fallback")
       /\ last'.op \in {"ensure_connected", "reset_failure_state",
                        "force_reconnect", "is_connected", "is_failed",
                        "get_stats"}
            => total_reconnections' = total_reconnections]_vars

\* C20: after a reconnectable write error on a Connected session the manager
\* is Disconnected without a socket, and the next ensure_connected connects
\* afresh whatever time has passed; when that attempt succeeds, Register,
\* its reply and the probe colour have been exchanged on the new transport
\* before any frame.
C20_ReconnectAfterDrop ==
    [][Event(last) = "drop"
          => /\ state = "Disconnected" /\ socket = None
             /\ consecutive_failures = 0
             /\ last'.op \in {"ensure_connected", "send_image_with_fallback"}
                  => (/\ last'.io # <<>> /\ last'.io[1] = "connect"
                      /\ last_connection_attempt' = Some(now)
                      /\ Count(last'.io, "connect") = 1
                      /\ last'.ret \in {Ok("socket"), Ok("true")}
                           => (/\ socket' # None
                               /\ IsPrefix(Handshake \o <<"send_color_warm">>,
                                           Protocol(last'.io))))]_vars

\* The drop and the reconnection happen in the instant of the first connect.
C20_Witness ==
    /\ last.op = "ensure_connected" /\ last.after = "drop"
    /\ last.from = "Disconnected"
    /\ Connected(last)
    /\ total_reconnections = 1 /\ state = "Connected"
    /\ now = 0

\* C22: while the server stays unreachable and nothing resets the manager,
\* a connect attempt that follows a failed one is made only when at least the
\* computed backoff has passed since the previous attempt, and the backoff
\* that gates the next attempt is never smaller than this one.
C22_BackoffBetweenAttempts ==
    [][(/\ last'.op \in {"ensure_connected", "send_image_with_fallback"}
        /\ Connects(last')
        /\ state \in {"Reconnecting", "Failed"}
        /\ consecutive_failures >= 1
        /\ last_connection_attempt # None)
          => /\ now - Unwrap(last_connection_attempt)
                  >= calculate_backoff_duration(Manager)
             /\ calculate_backoff_duration(
                    [Manager EXCEPT !.consecutive_failures = @ + 1])
                  >= calculate_backoff_duration(Manager)]_vars

\* The transports open after the first k IO calls of a call that started
\* with `start` open: set_read_timeout is the first call on a transport that
\* TcpStream::connect has opened, close ends one.
OpenAfter(io, start, k) ==
    start + Cardinality({i \in 1..k : io[i] = "set_read_timeout"})
          - Cardinality({i \in 1..k : io[i] = "close"})

Held(s) == IF s = None THEN 0 ELSE 1

\* C23: at most one transport is open at any time: a connect attempt begins
\* with none open, every transport a call opens and does not install is
\* closed before the call returns, and what is open between calls is exactly
\* the socket in the manager's slot.
C23_OneTransport ==
    [][LET io == last'.io
       IN  /\ \A k \in 0..Len(io) : OpenAfter(io, Held(socket), k) \in {0, 1}
           /\ OpenAfter(io, Held(socket), Len(io)) = Held(socket')
           /\ \A k \in 1..Len(io) :
                 io[k] = "connect" => OpenAfter(io, Held(socket), k - 1) = 0]_vars

\* A handshake failed on a transport the call had opened.
C23_Witness ==
    /\ last.op = "ensure_connected" /\ last.ret = Err("HandshakeError")
    /\ "read_reply" \in Range(last.io)
    /\ last.io[Len(last.io)] = "close"
    /\ socket = None

\* C24: get_stats(), is_connected() and is_failed() change nothing: state,
\* socket, both counters and the timestamps are as before, and get_stats
\* reports the current consecutive_failures and total_reconnections.
C24_QueriesArePure ==
    [][last'.op \in {"get_stats", "is_connected", "is_failed"}
          => /\ UNCHANGED <<fields, now>>
             /\ last'.io = <<>>
             /\ last'.op = "get_stats"
                  => /\ last'.ret.val.consecutive_failures = consecutive_failures
                     /\ last'.ret.val.total_reconnections = total_reconnections
                     /\ last'.ret.val.state = state]_vars

\* Statistics taken while a retry is pending.
C24_Witness ==
    /\ last.op = "get_stats" /\ last.from = "Reconnecting"
    /\ last.ret.val.consecutive_failures = 1
    /\ last.ret.val.total_reconnections = 0
    /\ consecutive_failures = 1 /\ state = "Reconnecting"

\* C25: ensure_connected returns the socket only when the state it leaves is
\* Connected and the slot holds a socket; when it returns an error the state
\* it leaves is Reconnecting or Failed, never Connected, and no socket is held.
C25_EnsureResult ==
    [][last'.op = "ensure_connected"
          => /\ last'.ret.tag = "Ok"
                  => (/\ last'.ret = Ok("socket")
                      /\ state' = "Connected" /\ socket' # None)
             /\ last'.ret.tag = "Err"
                  => (/\ state' \in {"Reconnecting", "Failed"}
                      /\ socket' = None)
             /\ last'.ret = Err("BackoffActive") => state' = "Reconnecting"]_vars

\* An attempt that failed with retries left.
C25_Witness ==
    /\ last.op = "ensure_connected" /\ last.ret = Err("ConnectError")
    /\ state = "Reconnecting" /\ consecutive_failures = 1
    /\ config.max_retries = 2

\* C27: within ensure_connected the health check runs only when at least
\* health_check_interval has passed since the last one, and before the
\* dispatch on the state: a check that demotes a Connected manager is followed,
\* in the same call, by a fresh connect, never by the return of the dead socket.
C27_HealthCheckFirst ==
    [][last'.op \in {"ensure_connected", "send_image_with_fallback"}
          => LET io == last'.io
             IN  /\ "peer_addr" \in Range(io)
                      => (/\ now - last_health_check
                                >= config.health_check_interval_ms
                          /\ io[1] = "peer_addr"
                          /\ Count(io, "peer_addr") = 1)
                 /\ last_health_check' =
                      IF now - last_health_check >= config.health_check_interval_ms
                      THEN now ELSE last_health_check
                 /\ (Len(io) >= 2 /\ io[1] = "peer_addr" /\ io[2] = "close")
                      => (/\ Len(io) >= 3 /\ io[3] = "connect"
                          /\ last_connection_attempt' = Some(now)
                          /\ socket' # None => Connected(last'))]_vars

\* The check demoted the session and the reconnect of the same call failed.
C27_Witness ==
    /\ last.op = "send_image_with_fallback" /\ last.from = "Connected"
    /\ Len(last.io) >= 3
    /\ last.io[1] = "peer_addr" /\ last.io[2] = "close" /\ last.io[3] = "connect"
    /\ last.ret = Ok("false")
    /\ socket = None

\* C28: a drop never inherits failure history: a reconnectable runtime error
\* leaves consecutive_failures at 0, and a failed attempt makes the manager
\* Failed exactly when the failures counted since then reach max_retries, so
\* the attempts needed after a drop are those a fresh manager needs.
C28_DropClearsHistory ==
    [][/\ ReportsDrop(last')
            => (consecutive_failures' = 0 /\ state' = "Disconnected")
       /\ FailureHandled(last')
            => (/\ consecutive_failures' = consecutive_failures + 1
                /\ state' = "Failed"
                     <=> consecutive_failures + 1 >= config.max_retries)
       /\ (Event(last) = "drop" /\ FailureHandled(last'))
            => (/\ consecutive_failures' = 1
                /\ state' = "Failed" <=> config.max_retries <= 1)]_vars

\* Failed by the full number of failures after a drop was counted.
C28_Witness ==
    /\ FailureHandled(last) /\ last.from = "Reconnecting"
    /\ state = "Failed"
    /\ total_reconnections = 1
    /\ config.max_retries = 2 /\ consecutive_failures = 2

\* C26: no core operation blocks beyond the configured timeout: every connect
\* attempt opens the transport within connection_timeout_ms, and every read
\* and write on the transport takes at most connection_timeout_ms.
C26_ConnectAndIoBounded ==
    [][last'.op = "attempt_connection"
          => /\ last'.ret.val.connect <= config.connection_timeout_ms
             /\ \A i \in DOMAIN last'.ret.val.io :
                   last'.ret.val.io[i] <= config.connection_timeout_ms]_vars

\* C21: the capture loop is never halted by the server being unavailable:
\* whatever send_image_with_fallback returns (sent, not sent, or a fatal
\* error) and whatever state the manager is in, the loop goes on to its sleep
\* and from there to the next iteration.
C21_LoopGoesOn ==
    [][/\ pc' \in {"connect", "capture", "sleep", "recovery"}
       /\ pc = "connect" => pc' = "capture"
       /\ pc = "capture" => pc' = "sleep"
       /\ pc = "sleep" => pc' = "recovery"
       /\ pc = "recovery" => pc' = "capture"]_vars

\* A fatal error was returned and the loop has slept on its way to the next
\* frame.
C21_Witness ==
    /\ pc = "recovery"
    /\ last.op = "send_image_with_fallback"
    /\ last.ret.tag = "Err" /\ last.arg \in FatalKinds

\* The recovery step of the iteration in which the manager became Failed.
EnteredFailed ==
    /\ pc = "recovery"
    /\ state = "Failed"
    /\ last.op = "send_image_with_fallback"
    /\ last.from # "Failed"

\* The loop resets only in diagnostic mode with a logger, only a Failed
\* manager, and not within 120 s of the previous recovery check.
ResetsAreGated ==
    last'.op = "reset_failure_state"
      => /\ pc = "recovery"
         /\ diagnostic.mode /\ diagnostic.logger
         /\ state = "Failed"
         /\ \/ last_recovery_check = None
            \/ now - Unwrap(last_recovery_check) >= 120000
         /\ last_recovery_check' = Some(now)
         /\ state' = "Disconnected" /\ consecutive_failures' = 0

\* C29 as stated: resets are gated as above, and the first check after the
\* manager enters Failed resets it at once.
C29_RecoveryCheck_AsStated ==
    [][/\ ResetsAreGated
       /\ (EnteredFailed /\ diagnostic.mode /\ diagnostic.logger)
            => last'.op = "reset_failure_state"]_vars

\* C29: the loop calls reset_failure_state only in diagnostic mode with a
\* logger, only while is_failed() is true, and at most once per 120 s; the
\* first check of the run that finds the manager Failed resets it at once, a
\* later one only when 120 s have passed since the previous reset, also when
\* the manager has become Failed anew; outside diagnostic mode the loop never
\* resets.
C29_RecoveryCheck ==
    [][/\ ResetsAreGated
       /\ (pc = "recovery" /\ diagnostic.mode /\ diagnostic.logger
             /\ state = "Failed")
            => (last'.op = "reset_failure_state"
                  <=> \/ last_recovery_check = None
                      \/ now - Unwrap(last_recovery_check) >= 120000)
       /\ ~(diagnostic.mode /\ diagnostic.logger)
            => UNCHANGED last_recovery_check]_vars

\* The second reset of a run, 120 s after the first.
C29_Witness ==
    /\ last.op = "reset_failure_state"
    /\ last_recovery_check = Some(now)
    /\ now = 5 * MainTickMs
    /\ state = "Disconnected"

\* C30: whenever no call is inside the mutex, the buffered-event queue holds
\* at most 100 entries, and they are the most recent pushed (all of them
\* while fewer than 100 were pushed), oldest first: eviction takes the
\* oldest.  Inside the mutex the queue holds one more at most.
C30_BufferHoldsLastHundred ==
    /\ Len(error_buffer) <= 101
    /\ LockFree
         => /\ Len(error_buffer) <= 100
            /\ Len(error_buffer) = IF log_seq < 100 THEN log_seq ELSE 100
            /\ \A i \in 1..Len(error_buffer) :
                  error_buffer[i] = log_seq - Len(error_buffer) + i

\* Two entries have been evicted and both threads have returned.
C30_Witness ==
    /\ log_seq = 102
    /\ \A t \in Threads : log_pc[t] = "idle"
    /\ Len(error_buffer) = 100
    /\ error_buffer[1] = 3 /\ error_buffer[100] = 102

\* C33: consecutive_failures never exceeds max_retries: once the counter has
\* reached max_retries no failed connect attempt increments it before it is
\* reset to 0.
C33_FailuresWithinMaxRetries ==
    consecutive_failures <= config.max_retries

\* C35: the backoff computed in u64 (wrapping) is never below
\* min(initial_backoff_ms, max_backoff_ms), never above max_backoff_ms, and
\* does not decrease when consecutive_failures grows by one.
C35_BackoffMonotoneAndBounded ==
    LET m == Manager
        b == last.ret.val
        up == calculate_backoff_duration(
                  [m EXCEPT !.consecutive_failures = @ + 1])
        lo == IF config.initial_backoff_ms <= config.max_backoff_ms
              THEN config.initial_backoff_ms ELSE config.max_backoff_ms
    IN  last.op = "calculate_backoff_duration"
          => /\ lo <= b
             /\ b <= config.max_backoff_ms
             /\ consecutive_failures < config.max_retries => b <= up

\* C37: whenever state is Reconnecting between operations the time of the
\* last attempt is set, so ensure_connected in Reconnecting always compares
\* the elapsed time with the backoff: it attempts a connect only when the
\* backoff has elapsed, and otherwise returns the backoff error.
C37_ReconnectingHasTimestamp ==
    [][/\ state' = "Reconnecting" => last_connection_attempt' # None
       /\ (last'.op = "ensure_connected" /\ state = "Reconnecting")
            => /\ last_connection_attempt # None
               /\ Connects(last')
                    <=> now - Unwrap(last_connection_attempt)
                           >= calculate_backoff_duration(Manager)
               /\ last'.ret = Err("BackoffActive") <=> ~Connects(last')]_vars

\* ensure_connected met Reconnecting with the backoff still running: the
\* comparison was made against the recorded attempt time.
C37_Witness ==
    /\ last.op = "ensure_connected" /\ last.from = "Reconnecting"
    /\ last.ret = Err("BackoffActive")
    /\ state = "Reconnecting"
    /\ last_connection_attempt # None
    /\ now - Unwrap(last_connection_attempt)
           < calculate_backoff_duration(Manager)

\* C32: at most one monitoring thread runs at any time: no two threads are
\* inside the monitoring loop together, whatever the interleaving of
\* start_monitoring and stop_monitoring (stop followed by start before the
\* running thread reads the flag again included).
C32_AtMostOneMonitor ==
    Cardinality({i \in 1..MaxMonitorThreads :
                    monitors[i] = "collecting"}) <= 1

\* C31: a failure reported to log_hyperion_operation is written as a
\* HYPERION_ERROR line when it is the first, and afterwards exactly when at
\* least 10 seconds have passed since the last failure that was written; a
\* suppressed failure leaves that time alone.  Under concurrent callers any
\* two failures written (or about to be) are at least 10 seconds apart, so
\* no 10-second window holds two.
C31_HyperionErrorDedup ==
    [][/\ last'.op = "log_hyperion_operation"
            => /\ last'.ret = Ret("true")
                    <=> \/ last_hyperion_error = None
                        \/ now - Unwrap(last_hyperion_error) >= 10000
               /\ last_hyperion_error' =
                     IF last'.ret = Ret("true") THEN Some(now)
                     ELSE last_hyperion_error
               /\ should_log'[last'.arg] # None <=> last'.ret = Ret("true")
       /\ LET stamps == [i \in 1..Len(writer') |-> writer'[i].decided]
              pending == UNION {should_log'[t] : t \in Threads}
          IN  /\ \A i, j \in 1..Len(stamps) :
                    i # j => \/ stamps[i] - stamps[j] >= 10000
                             \/ stamps[j] - stamps[i] >= 10000
              /\ \A i \in 1..Len(stamps) : \A d \in pending :
                    \/ stamps[i] - d >= 10000
                    \/ d - stamps[i] >= 10000
              /\ Cardinality(pending) =
                    Cardinality({t \in Threads : should_log'[t] # None})]_vars

\* Both threads have written a line, ten seconds apart, and a failure
\* reported inside the window of the second was suppressed.
C31_Witness ==
    /\ Len(writer) = 2
    /\ writer[1].by # writer[2].by
    /\ last.op = "log_hyperion_operation" /\ last.ret = Ret("false")
    /\ last_hyperion_error # None
    /\ now - Unwrap(last_hyperion_error) = 5000

\* The order the mutexes are taken in: the tracker's lists first, then the
\* logger's counters and stamps, then the buffer, then the writer.
LockRank ==
    [x \in Mutexes |->
        CASE x \in {"prime_fds", "gem_handles"} -> 0
          [] x \in {"last_summary", "capture_count", "last_hyperion_error"} -> 1
          [] x = "error_buffer" -> 2
          [] x = "writer" -> 3]

HeldBy(t) == {x \in Mutexes : lock_owner[x] = t}

\* C36: the logging subsystem cannot deadlock.  In every interleaving of the
\* two threads' logging and tracking calls, a thread takes a mutex only
\* while every mutex it holds comes earlier in one fixed order (so it never
\* locks a mutex it holds), whenever a thread is inside a call some thread
\* inside a call can take its next step, and every call returns.
C36_LoggingCannotDeadlock ==
    /\ [](\A t \in Threads :
            (InCall(t) /\ Head(call_steps[t])[1] = "lock")
               => \A x \in HeldBy(t) :
                     LockRank[x] < LockRank[Head(call_steps[t])[2]])
    /\ []((\E t \in Threads : InCall(t)) => \E t \in Threads : CanStep(t))
    /\ \A t \in Threads : InCall(t) ~> ~InCall(t)

\* The monitoring thread, holding the tracker's list, waits for the buffer
\* while main dumps it under the buffer's mutex and holds the writer.
C36_Witness ==
    /\ lock_owner["error_buffer"] = "main"
    /\ lock_owner["writer"] = "main"
    /\ lock_owner["prime_fds"] = "monitor"
    /\ InCall("monitor")
    /\ Head(call_steps["monitor"]) = Lock("error_buffer")
    /\ ~CanStep("monitor")

\* C34: self-healing.  Once the server accepts connections and completes
\* the handshake, with time advancing and the caller calling
\* ensure_connected or send_image_with_fallback again and again, a session
\* that is Disconnected or Reconnecting is eventually Connected, and so is
\* one that was Failed when reset_failure_state or force_reconnect was
\* called.
C34_SelfHealing ==
    /\ (server = "up" /\ state \in {"Disconnected", "Reconnecting"})
          ~> state = "Connected"
    /\ (/\ server = "up"
        /\ last.op \in {"reset_failure_state", "force_reconnect"}
        /\ last.from = "Failed")
          ~> state = "Connected"

\* The same with a connection timeout that can be set on the socket.
C34_SelfHealing_NonZeroTimeout ==
    (/\ server = "up"
     /\ config.connection_timeout_ms > 0
     /\ state \in {"Disconnected", "Reconnecting"})
        ~> state = "Connected"

====
